---- MODULE Spec2Model ----
(***************************************************************************)
(* Model of rfd_title_extractor.py: the reporting-date scan                *)
(* (extract_reporting_date), the Item 1A section locator (get_item_1a) and *)
(* the risk-factor title classifier (extract_risk_factor_titles).          *)
(*                                                                         *)
(* Each of the three functions is a loop over a list; the model steps the  *)
(* loop one iteration per action and keeps the function's locals as state. *)
(***************************************************************************)
EXTENDS Integers, Sequences, FiniteSets, TLC

VARIABLES
    \* extract_reporting_date
    dText,      \* the flattened text, as the sequence of its date phrases
    dIdx,       \* index into `patterns` of the pattern tried next
    dPc,        \* "idle" | "scan" | "returned" | "raised"
    dResult,    \* <<month, day, year>> once returned, <<>> before
    \* get_item_1a
    lDoc,       \* `elements`: every tag of the parsed document, in document order
    lI,         \* position in `elements` of the running loop
    lPc,        \* "idle" | "scan" | "collect" | "done" | "raised"
    lStart,     \* start_idx (a position in `elements`), 0 for None
    lTags,      \* section_tags, as positions in `elements`
    lResult,    \* the returned string, as its sequence of lines; <<>> is ""
    \* extract_risk_factor_titles
    tDoc,       \* the parsed section: tags and text nodes in document order
    tIdx,       \* position in soup.find_all(True) of the tag visited next
    tPc,        \* "idle" | "loop" | "done"
    tSeen,      \* seen
    tTitles,    \* titles as collected by the loop
    tKept,      \* titles after the dominant-style step (the returned list)
    tRun,       \* 1: the section; 2: the classifier run again on its output
    tFirst      \* the list returned by run 1, kept for run 2

dateVars == <<dText, dIdx, dPc, dResult>>
locVars == <<lDoc, lI, lPc, lStart, lTags, lResult>>

titleVars == <<tDoc, tIdx, tPc, tSeen, tTitles, tKept, tRun, tFirst>>

vars == <<dateVars, locVars, titleVars>>

\* A function that is not the one under study has not been called.
DateIdle == dText = <<>> /\ dIdx = 0 /\ dPc = "idle" /\ dResult = <<>>
LocIdle ==
    /\ lDoc = <<>> /\ lI = 0 /\ lPc = "idle"
    /\ lStart = 0 /\ lTags = <<>> /\ lResult = <<>>
TitleIdle ==
    /\ tDoc = <<>> /\ tIdx = 0 /\ tPc = "idle" /\ tSeen = {}
    /\ tTitles = <<>> /\ tKept = <<>> /\ tRun = 0 /\ tFirst = <<>>

(***************************************************************************)
(* extract_reporting_date                                                  *)
(*                                                                         *)
(* The text is modelled by the phrases of it that a pattern can match, in  *)
(* text order.  A phrase is a lead (the words before the date) and the     *)
(* date written after it: either a textual date "<word> <dd>,<sp><yyyy>"   *)
(* or a run of eight digits.                                               *)
(***************************************************************************)

\* Leads, as they appear in the whitespace-collapsed text.
Leads ==
    { "for the fiscal year ended", "fiscal year ending", "for the year ended",
      "year ended", "period of report", "conformed period of report:",
      "conformed period of report" }

\* The eight patterns in list order: the leads whose text the pattern's
\* literal part matches immediately before the capture, and the capture's
\* shape ("text" for [A-Za-z]+\s+\d{1,2},\s*\d{4}, "digits" for [0-9]{8}).
patterns ==
    << [leads |-> {"for the fiscal year ended"}, cap |-> "text"],
       [leads |-> {"for the fiscal year ended", "fiscal year ending"}, cap |-> "text"],
       [leads |-> {"for the year ended"}, cap |-> "text"],
       [leads |-> {"for the fiscal year ended", "for the year ended", "year ended"},
        cap |-> "text"],
       [leads |-> {"period of report", "conformed period of report"}, cap |-> "text"],
       [leads |-> {"conformed period of report:", "conformed period of report"},
        cap |-> "digits"],
       [leads |-> {"for the fiscal year ended"}, cap |-> "digits"],
       [leads |-> {"for the year ended"}, cap |-> "digits"] >>

\* re.search(pattern, text): does the pattern match at this phrase.
PhraseMatches(p, ph) == ph.lead \in patterns[p].leads /\ ph.cap.kind = patterns[p].cap

\* re.search returns the leftmost match: the first phrase the pattern matches,
\* 0 when there is none.
FirstMatch(p, text) ==
    IF \E i \in 1..Len(text) : PhraseMatches(p, text[i])
    THEN CHOOSE i \in 1..Len(text) :
            /\ PhraseMatches(p, text[i])
            /\ \A j \in 1..(i - 1) : ~PhraseMatches(p, text[j])
    ELSE 0

IsLeap(y) == (y % 4 = 0 /\ y % 100 # 0) \/ y % 400 = 0

DaysIn(m, y) ==
    IF m = 2 THEN (IF IsLeap(y) THEN 29 ELSE 28)
    ELSE IF m \in {4, 6, 9, 11} THEN 30 ELSE 31

\* datetime(year, month, day) accepts the triple.
ValidDate(y, m, d) == y \in 1..9999 /\ m \in 1..12 /\ d \in 1..DaysIn(m, y)

\* %B: full month names, matched case-insensitively.
FullMonth(w) ==
    CASE w \in {"December", "DECEMBER"} -> 12
      [] w = "February" -> 2
      [] w = "June" -> 6
      [] OTHER -> 0

\* %b: abbreviated month names.
AbbrMonth(w) ==
    CASE w \in {"Dec", "dec"} -> 12
      [] w = "Feb" -> 2
      [] w = "Jun" -> 6
      [] OTHER -> 0

\* One strptime attempt on a textual capture; <<>> stands for ValueError.
\* The blank of the format after the comma needs at least one blank in the
\* capture (strptime compiles format whitespace to \s+).
StrptimeText(c, fmt) ==
    LET m == IF fmt = "%B %d, %Y" THEN FullMonth(c.mon)
             ELSE IF fmt = "%b %d, %Y" THEN AbbrMonth(c.mon)
             ELSE 0   \* "%d %B %Y", "%d %b %Y": the capture starts with letters
    IN IF m # 0 /\ c.sp /\ ValidDate(c.year, m, c.day) THEN <<m, c.day, c.year>> ELSE <<>>

\* strptime(date_str, "%Y%m%d") on eight digits.
StrptimeDigits(c) ==
    LET y == c.n \div 10000
        m == (c.n \div 100) % 100
        d == c.n % 100
    IN IF ValidDate(y, m, d) THEN <<m, d, y>> ELSE <<>>

formats == << "%B %d, %Y", "%b %d, %Y", "%d %B %Y", "%d %b %Y" >>

\* The body of `if match:`: the date returned for the capture, <<>> when the
\* body ends without a return.
ParseCapture(c) ==
    IF c.kind = "digits" THEN StrptimeDigits(c)
    ELSE IF \E f \in 1..Len(formats) : StrptimeText(c, formats[f]) # <<>>
         THEN LET f == CHOOSE f \in 1..Len(formats) :
                          /\ StrptimeText(c, formats[f]) # <<>>
                          /\ \A g \in 1..(f - 1) : StrptimeText(c, formats[g]) = <<>>
              IN StrptimeText(c, formats[f])
         ELSE <<>>

\* A slip the loop could have: give up at the first capture that fails to parse.
AfterFailedParseStop(p) == Len(patterns) + 1

\* What the loop does after a capture that did not parse (the `continue` of
\* both except clauses, and the end of the format loop): the next pattern.
AfterFailedParse(p) == p + 1

\* Inputs: the captures and phrases the texts are drawn from.
MaxPhrases == 2

TextCaptures ==
    { [kind |-> "text", mon |-> "December", day |-> 31, year |-> 2019, sp |-> TRUE],
      [kind |-> "text", mon |-> "Dec", day |-> 31, year |-> 2020, sp |-> TRUE],
      [kind |-> "text", mon |-> "February", day |-> 29, year |-> 2019, sp |-> TRUE],
      [kind |-> "text", mon |-> "June", day |-> 30, year |-> 2020, sp |-> FALSE] }

DigitCaptures ==
    { [kind |-> "digits", n |-> 20201231], [kind |-> "digits", n |-> 20190229] }

DatePhrases ==
    { ph \in [lead : Leads, cap : TextCaptures \cup DigitCaptures] :
        \E p \in 1..Len(patterns) : PhraseMatches(p, ph) }

DateTexts == UNION { [1..n -> DatePhrases] : n \in 0..MaxPhrases }

DateStart ==
    /\ dText \in DateTexts
    /\ dIdx = 1
    /\ dPc = "scan"
    /\ dResult = <<>>


\* One iteration of `for pattern in patterns` in which the pattern matches and
\* its capture parses: the function returns the date.
DateReturn ==
    /\ dPc = "scan" /\ dIdx <= Len(patterns)
    /\ FirstMatch(dIdx, dText) # 0
    /\ ParseCapture(dText[FirstMatch(dIdx, dText)].cap) # <<>>
    /\ dResult' = ParseCapture(dText[FirstMatch(dIdx, dText)].cap)
    /\ dPc' = "returned"
    /\ UNCHANGED <<dText, dIdx, locVars, titleVars>>

\* One iteration in which the pattern matches but no parse succeeds.
DateDiscard ==
    /\ dPc = "scan" /\ dIdx <= Len(patterns)
    /\ FirstMatch(dIdx, dText) # 0
    /\ ParseCapture(dText[FirstMatch(dIdx, dText)].cap) = <<>>
    /\ dIdx' = AfterFailedParse(dIdx)
    /\ UNCHANGED <<dText, dPc, dResult, locVars, titleVars>>

\* One iteration in which the pattern does not match.
DateNoMatch ==
    /\ dPc = "scan" /\ dIdx <= Len(patterns)
    /\ FirstMatch(dIdx, dText) = 0
    /\ dIdx' = dIdx + 1
    /\ UNCHANGED <<dText, dPc, dResult, locVars, titleVars>>

\* The loop is exhausted: raise ValueError("Reporting date not found.").
DateRaise ==
    /\ dPc = "scan" /\ dIdx > Len(patterns)
    /\ dPc' = "raised"
    /\ UNCHANGED <<dText, dIdx, dResult, locVars, titleVars>>

DateNext == DateReturn \/ DateDiscard \/ DateNoMatch \/ DateRaise

DateInit == DateStart /\ LocIdle /\ TitleIdle

SpecDate == DateInit /\ [][DateNext]_vars

\* The patterns that match somewhere in the text, and those among them whose
\* first match parses as a date.
MatchingPatterns(text) == { p \in 1..Len(patterns) : FirstMatch(p, text) # 0 }

ParsingPatterns(text) ==
    { p \in MatchingPatterns(text) : ParseCapture(text[FirstMatch(p, text)].cap) # <<>> }

MinOf(S) == CHOOSE x \in S : \A y \in S : x <= y

DateDone == dPc \in {"returned", "raised"}

\* C5 (as claimed): the first pattern that matches anywhere in the text decides
\* the result alone: its date when its capture parses, and "not found" when
\* it does not, whatever lower-priority patterns would have given.
C5_FirstMatchingPatternDecides ==
    DateDone =>
        IF MatchingPatterns(dText) = {} THEN dPc = "raised"
        ELSE LET p0 == MinOf(MatchingPatterns(dText))
                 r == ParseCapture(dText[FirstMatch(p0, dText)].cap)
             IN IF r # <<>> THEN dPc = "returned" /\ dResult = r
                ELSE dPc = "raised"

\* C5 (amended): the result is decided by the first pattern, in priority
\* order, whose first match in the text parses as a valid date; a matching
\* pattern whose capture does not parse is discarded and the lower-priority
\* patterns are tried; "not found" is raised only when no pattern's first
\* match parses.
C5_FirstParsingPatternDecides ==
    DateDone =>
        IF ParsingPatterns(dText) = {} THEN dPc = "raised" /\ dResult = <<>>
        ELSE LET p1 == MinOf(ParsingPatterns(dText))
             IN /\ dPc = "returned"
                /\ dResult = ParseCapture(dText[FirstMatch(p1, dText)].cap)
                /\ dIdx = p1

\* C5 witness: a date was returned from a pattern below one that matched and
\* whose capture was discarded.
C5_Witness ==
    /\ dPc = "returned"
    /\ \E p \in 1..(dIdx - 1) : FirstMatch(p, dText) # 0

(***************************************************************************)
(* get_item_1a                                                             *)
(*                                                                         *)
(* `elements` is the list of all tags in document order.  A tag is a       *)
(* record: its name, the position of its parent tag in the list (0 for the *)
(* BeautifulSoup object itself) and the words of its own text node.  Text  *)
(* is kept as its sequence of whitespace-separated words.                  *)
(***************************************************************************)

NEXT_CONTENT_LEN == 10
HEADER_LEN == 5
LOOKAHEAD == 10     \* the 10 of elements[i:i+10]

\* Proper ancestors of element i, nearest first, ending with 0 (tag.parents).
RECURSIVE Parents(_, _)
Parents(doc, i) == IF i = 0 THEN <<>> ELSE <<doc[i].parent>> \o Parents(doc, doc[i].parent)

Range(s) == { s[k] : k \in 1..Len(s) }

IsUnder(doc, j, i) == i \in Range(Parents(doc, j))

\* tag.get_text(" ", strip=True), as words: the words of the tag's text nodes
\* and of its descendants', in document order.
RECURSIVE TextFrom(_, _, _)
TextFrom(doc, i, j) ==
    IF j > Len(doc) THEN <<>>
    ELSE (IF j = i \/ IsUnder(doc, j, i) THEN doc[j].own ELSE <<>>) \o TextFrom(doc, i, j + 1)

TextOf(doc, i) == TextFrom(doc, i, i)

\* len(text.split())
WordCount(text) == Len(text)

\* Words as the patterns see them: re.IGNORECASE makes "Item", "ITEM" and
\* "item" alike; "1a" may carry its optional period.
IsItemWord(w) == w \in {"Item", "ITEM", "item"}
Is1aWord(w) == w \in {"1A", "1A.", "1a", "1a."}
Is1bWord(w) == w \in {"1B", "1B.", "1b", "1b."}

\* item_1a_pattern.search(text), item_1b_pattern.search(text)
Search1a(text) == \E k \in 1..(Len(text) - 1) : IsItemWord(text[k]) /\ Is1aWord(text[k + 1])
Search1b(text) == \E k \in 1..(Len(text) - 1) : IsItemWord(text[k]) /\ Is1bWord(text[k + 1])

\* item_1a_pattern.fullmatch(text)
FullMatch1a(text) == Len(text) = 2 /\ IsItemWord(text[1]) /\ Is1aWord(text[2])

\* The heading test of the start loop.
IsHeading1a(text) ==
    FullMatch1a(text) \/ (Search1a(text) /\ WordCount(text) <= HEADER_LEN)

\* lookahead = elements[i:i+10], by position (1-based, so i .. i+9).
Lookahead(doc, i) == { j \in i..(i + LOOKAHEAD - 1) : j <= Len(doc) }

\* has_content: some tag of the lookahead has non-empty text of more than
\* NEXT_CONTENT_LEN words.
HasContent(doc, i) ==
    \E j \in Lookahead(doc, i) :
        TextOf(doc, j) # <<>> /\ WordCount(TextOf(doc, j)) > NEXT_CONTENT_LEN

IsStart(doc, i) == IsHeading1a(TextOf(doc, i)) /\ HasContent(doc, i)

\* A slip the break test could have: <= for <.
IsSectionEndInclusive(text) == Search1b(text) /\ WordCount(text) <= NEXT_CONTENT_LEN

\* The break test of the collecting loop.
IsSectionEnd(text) == Search1b(text) /\ WordCount(text) < NEXT_CONTENT_LEN

\* Tag.__eq__ compares name, attributes and contents, recursively: two tags
\* are equal when their keys are.
RECURSIVE TagKey(_, _)
TagKey(doc, i) ==
    IF i = 0 THEN <<"[document]">>
    ELSE LET kids == { j \in 1..Len(doc) : doc[j].parent = i }
             kidSeq == [k \in 1..Cardinality(kids) |->
                          CHOOSE j \in kids : Cardinality({ x \in kids : x <= j }) = k]
         IN <<doc[i].name, doc[i].own, [k \in 1..Cardinality(kids) |-> TagKey(doc, kidSeq[k])]>>

\* `anc in [t for t in tag.parents]`
InParents(doc, anc, t) ==
    \E k \in 1..Len(Parents(doc, t)) : TagKey(doc, Parents(doc, t)[k]) = TagKey(doc, anc)

\* `child in section_tags`
InTags(doc, c, tags) == \E k \in 1..Len(tags) : TagKey(doc, tags[k]) = TagKey(doc, c)

\* _smallest_common_parent(tags): the nearest ancestor of tags[0] found among
\* the parents of every tag; tags[0].parent when there is none.
SmallestCommonParent(doc, tags) ==
    LET anc == Parents(doc, tags[1])
        good == { k \in 1..Len(anc) :
                    \A t \in 1..Len(tags) : InParents(doc, anc[k], tags[t]) }
    IN IF good # {} THEN anc[CHOOSE k \in good : \A m \in good : k <= m]
       ELSE doc[tags[1]].parent

\* str.lower() on a word.
LowerWord(w) ==
    CASE w \in {"Item", "ITEM"} -> "item"
      [] w = "1A" -> "1a"
      [] w = "1A." -> "1a."
      [] w = "1B" -> "1b"
      [] w = "1B." -> "1b."
      [] w = "Risk" -> "risk"
      [] w = "Factors" -> "factors"
      [] w = "Unresolved" -> "unresolved"
      [] w = "Staff" -> "staff"
      [] w = "Comments" -> "comments"
      [] OTHER -> w

\* " ".join(text.split()).lower()
NormText(text) == [k \in 1..Len(text) |-> LowerWord(text[k])]

\* The loop over section_parent.find_all(recursive=True), from position j with
\* the texts in `seen` already emitted: the positions whose str() is appended
\* to collected_blocks.
RECURSIVE CollectBlocks(_, _, _, _, _)
CollectBlocks(doc, par, tags, j, seen) ==
    IF j > Len(doc) THEN <<>>
    ELSE LET norm == NormText(TextOf(doc, j))
             keep == /\ IsUnder(doc, j, par)
                     /\ InTags(doc, j, tags)
                     /\ norm # <<>>
                     /\ norm \notin seen
         IN IF keep THEN <<j>> \o CollectBlocks(doc, par, tags, j + 1, seen \cup {norm})
            ELSE CollectBlocks(doc, par, tags, j + 1, seen)

\* A slip: the empty-range test left out.
RangeIsEmptyUnchecked(tags) == FALSE

\* `if not section_tags:`
RangeIsEmpty(tags) == tags = <<>>

\* What follows the collecting loop: "" for an empty range, and otherwise
\* "<div>\n" + "\n".join(collected_blocks) + "\n</div>".  The outcome is
\* "IndexError" if tags[0] is taken of an empty list.
SectionResult(doc, tags) ==
    IF RangeIsEmpty(tags) THEN [outcome |-> "return", value |-> <<>>]
    ELSE IF tags = <<>> THEN [outcome |-> "IndexError", value |-> <<>>]
    ELSE LET par == SmallestCommonParent(doc, tags)
         IN [outcome |-> "return",
             value |-> <<"<div>">> \o CollectBlocks(doc, par, tags, 1, {}) \o <<"</div>">>]

\* Inputs: documents are <html><body> followed by up to MaxSegs segments, each
\* one of the blocks below (a filler may repeat, to fill a lookahead window).
MaxSegs == 3

Filler(n) == [k \in 1..n |-> "w"]

P(words) == <<[name |-> "p", up |-> 0, own |-> words]>>

Repeat(block, n) == [k \in 1..n |-> block[1]]

SegKinds ==
    { "h1a", "toc", "short", "short8", "short9", "empty", "long", "ten",
      "h1b", "m1b9", "m1b10", "both", "wrap" }

\* The tags of a segment; `up` is the distance back to the parent tag, 0 for
\* a child of <body>.
Block(kind) ==
    CASE kind = "h1a" -> P(<<"Item", "1A.">>)
      [] kind = "toc" -> P(<<"Item", "1A.", "Risk", "Factors", "14">>)
      [] kind = "short" -> P(<<"14">>)
      [] kind = "short8" -> Repeat(P(<<"14">>), 8)
      [] kind = "short9" -> Repeat(P(<<"14">>), 9)
      [] kind = "empty" -> P(<<>>)
      [] kind = "long" -> P(Filler(11))
      [] kind = "ten" -> P(Filler(10))
      [] kind = "h1b" -> P(<<"Item", "1B.", "Unresolved", "Staff", "Comments">>)
      [] kind = "m1b9" -> P(<<"as", "discussed", "in", "Item", "1B", "above">> \o Filler(3))
      [] kind = "m1b10" -> P(<<"as", "discussed", "in", "Item", "1B", "above">> \o Filler(4))
      [] kind = "both" -> P(<<"Item", "1A", "and", "Item", "1B">>)
      [] kind = "wrap" ->
            << [name |-> "div", up |-> 0, own |-> <<>>],
               [name |-> "p", up |-> 1, own |-> <<"Item", "1A.">>],
               [name |-> "p", up |-> 2, own |-> Filler(11)] >>

RECURSIVE Blocks(_)
Blocks(segs) == IF segs = <<>> THEN <<>> ELSE Block(Head(segs)) \o Blocks(Tail(segs))

\* soup.find_all(True, recursive=True) on the parsed document.
Elements(segs) ==
    LET body == Blocks(segs)
    IN << [name |-> "html", parent |-> 0, own |-> <<>>],
          [name |-> "body", parent |-> 1, own |-> <<>>] >>
       \o [k \in 1..Len(body) |->
             [name |-> body[k].name,
              parent |-> IF body[k].up = 0 THEN 2 ELSE k + 2 - body[k].up,
              own |-> body[k].own]]

LocDocs == { Elements(segs) : segs \in UNION { [1..n -> SegKinds] : n \in 0..MaxSegs } }

LocStart ==
    /\ lDoc \in LocDocs
    /\ lI = 1
    /\ lPc = "scan"
    /\ lStart = 0
    /\ lTags = <<>>
    /\ lResult = <<>>

\* An iteration of the start loop on a tag that is not the start.
LocScanSkip ==
    /\ lPc = "scan" /\ lI <= Len(lDoc)
    /\ ~IsStart(lDoc, lI)
    /\ lI' = lI + 1
    /\ UNCHANGED <<lDoc, lPc, lStart, lTags, lResult, dateVars, titleVars>>

\* The iteration that finds the start: start_idx = i, break; the collecting
\* loop then runs over elements[start_idx:].
LocScanFound ==
    /\ lPc = "scan" /\ lI <= Len(lDoc)
    /\ IsStart(lDoc, lI)
    /\ lStart' = lI
    /\ lPc' = "collect"
    /\ UNCHANGED <<lDoc, lI, lTags, lResult, dateVars, titleVars>>

\* The start loop ends without a start: return "".
LocNotFound ==
    /\ lPc = "scan" /\ lI > Len(lDoc)
    /\ lResult' = <<>>
    /\ lPc' = "done"
    /\ UNCHANGED <<lDoc, lI, lStart, lTags, dateVars, titleVars>>

\* An iteration of the collecting loop that appends the tag.
LocCollect ==
    /\ lPc = "collect" /\ lI <= Len(lDoc)
    /\ ~IsSectionEnd(TextOf(lDoc, lI))
    /\ lTags' = Append(lTags, lI)
    /\ lI' = lI + 1
    /\ UNCHANGED <<lDoc, lPc, lStart, lResult, dateVars, titleVars>>

\* A slip the end of the function could have: a collecting loop that ran off
\* the end of the list without its break is reported as "end not found".
LocFinishDropsOpenRange ==
    /\ lPc = "collect"
    /\ lI > Len(lDoc) \/ IsSectionEnd(TextOf(lDoc, lI))
    /\ LET r == IF lI > Len(lDoc) THEN [outcome |-> "return", value |-> <<>>]
                ELSE SectionResult(lDoc, lTags)
       IN /\ lResult' = r.value
          /\ lPc' = IF r.outcome = "return" THEN "done" ELSE "raised"
    /\ UNCHANGED <<lDoc, lI, lStart, lTags, dateVars, titleVars>>

\* The collecting loop ends, by its break or at the end of the list, and the
\* rest of the function runs.
LocFinish ==
    /\ lPc = "collect"
    /\ lI > Len(lDoc) \/ IsSectionEnd(TextOf(lDoc, lI))
    /\ LET r == SectionResult(lDoc, lTags)
       IN /\ lResult' = r.value
          /\ lPc' = IF r.outcome = "return" THEN "done" ELSE "raised"
    /\ UNCHANGED <<lDoc, lI, lStart, lTags, dateVars, titleVars>>

LocNext == LocScanSkip \/ LocScanFound \/ LocNotFound \/ LocCollect \/ LocFinish

LocInit == LocStart /\ DateIdle /\ TitleIdle

SpecLocator == LocInit /\ [][LocNext]_vars

LocSettled == lPc \in {"collect", "done"}

\* The start test as C3 words it: the heading test, and a tag of more than
\* 10 words among the 10 tags that follow the heading.
ContentInNextTen(doc, i) ==
    \E j \in (i + 1)..(i + 10) :
        j <= Len(doc) /\ WordCount(TextOf(doc, j)) > NEXT_CONTENT_LEN

StartAsClaimed(doc, i) == IsHeading1a(TextOf(doc, i)) /\ ContentInNextTen(doc, i)

\* C3: the chosen start is the first tag in document order that passes the
\* heading test and has a tag of more than 10 words among the next 10 tags
\* after it (the 10th included); there is no start only when no tag does.
C3_StartIsFirstHeadingWithContentInNextTen ==
    LocSettled =>
        IF \E i \in 1..Len(lDoc) : StartAsClaimed(lDoc, i)
        THEN /\ lStart # 0
             /\ StartAsClaimed(lDoc, lStart)
             /\ \A i \in 1..(lStart - 1) : ~StartAsClaimed(lDoc, i)
        ELSE lStart = 0

\* The first position at or after `from` whose text mentions Item 1B in fewer
\* than `limit` words; Len(doc) + 1 when there is none.
FirstEnd(doc, from, limit) ==
    LET ends == { k \in from..Len(doc) :
                    Search1b(TextOf(doc, k)) /\ WordCount(TextOf(doc, k)) < limit }
    IN IF ends = {} THEN Len(doc) + 1 ELSE MinOf(ends)

\* C4 (as claimed): a tag at or after the start that mentions Item 1B in 9 or
\* more words does not end the section: with no short Item 1B heading
\* before it, it is in the collected range.
C4_NineWordMentionStays ==
    (lPc = "done" /\ lStart # 0) =>
        \A j \in lStart..Len(lDoc) :
            ( /\ Search1b(TextOf(lDoc, j))
              /\ WordCount(TextOf(lDoc, j)) >= 9
              /\ j < FirstEnd(lDoc, lStart, 9) )
            => j \in Range(lTags)

\* C4 (amended): scanning from the start tag, the section ends at the first
\* tag whose text matches the Item 1B pattern in fewer than 10 words; that
\* tag and everything after it are excluded, and every tag before it,
\* those that mention Item 1B in 10 or more words included, stays in the
\* range.
C4_SectionEndsAtShortHeading ==
    (lPc = "done" /\ lStart # 0) =>
        LET e == FirstEnd(lDoc, lStart, NEXT_CONTENT_LEN)
        IN /\ lTags = [k \in 1..(e - lStart) |-> lStart + k - 1]
           /\ \A j \in lStart..Len(lDoc) :
                ( /\ Search1b(TextOf(lDoc, j))
                  /\ WordCount(TextOf(lDoc, j)) >= NEXT_CONTENT_LEN
                  /\ j < e )
                => j \in Range(lTags)

\* C4 witness: a short Item 1B heading ended the section after a tag that
\* mentions Item 1B in 10 or more words was kept.
C4_Witness ==
    /\ lPc = "done" /\ lStart # 0
    /\ lI <= Len(lDoc)
    /\ \E k \in 1..Len(lTags) :
          /\ Search1b(TextOf(lDoc, lTags[k]))
          /\ WordCount(TextOf(lDoc, lTags[k])) >= NEXT_CONTENT_LEN

\* C8: get_item_1a never raises; it returns "" for every document in which no
\* tag passes the start test, and also when a start is found but the
\* collected range is empty; in every other case the result is not "".
C8_NotFoundPolicy ==
    /\ lPc # "raised"
    /\ lPc = "done" =>
         IF \A i \in 1..Len(lDoc) : ~IsStart(lDoc, i)
         THEN lStart = 0 /\ lResult = <<>>
         ELSE /\ lStart # 0
              /\ lTags = <<>> => lResult = <<>>
              /\ lTags # <<>> => lResult # <<>>

\* C8 witness: a start was found, the range is empty and "" was returned.
C8_Witness == lPc = "done" /\ lStart # 0 /\ lTags = <<>> /\ lResult = <<>>

\* The tags whose str() the returned section holds between "<div>" and
\* "</div>", as positions in `elements`.
EmittedBlocks == IF lResult = <<>> THEN <<>> ELSE SubSeq(lResult, 2, Len(lResult) - 1)

\* A start was found and no tag at or after it mentions Item 1B in fewer than
\* 10 words.
OpenEnded ==
    /\ lPc = "done" /\ lStart # 0
    /\ FirstEnd(lDoc, lStart, NEXT_CONTENT_LEN) = Len(lDoc) + 1

\* C11: when a start tag is found and no tag at or after it satisfies the end
\* condition, get_item_1a does not return "": the range is every tag from
\* the start tag through the last tag of the document, and the returned
\* section is built from that whole range: it is "<div>", blocks, "</div>",
\* every block is (equal to) a tag of the range, and the text of every tag
\* of the range that has text is the text of a block.
C11_OpenRangeRunsToLastElement ==
    OpenEnded =>
        /\ lResult # <<>>
        /\ lTags = [k \in 1..(Len(lDoc) - lStart + 1) |-> lStart + k - 1]
        /\ Head(lResult) = "<div>"
        /\ EmittedBlocks # <<>>
        /\ \A b \in Range(EmittedBlocks) :
              \E j \in lStart..Len(lDoc) : TagKey(lDoc, j) = TagKey(lDoc, b)
        /\ \A j \in lStart..Len(lDoc) :
              TextOf(lDoc, j) # <<>> =>
                \E b \in Range(EmittedBlocks) :
                    NormText(TextOf(lDoc, b)) = NormText(TextOf(lDoc, j))

\* C11 witness: the collecting loop ran off the end of the document, past a
\* tag after the start tag, and a section holding that last tag's text was
\* returned.
C11_Witness ==
    /\ OpenEnded
    /\ lI > Len(lDoc) /\ lStart < Len(lDoc)
    /\ TextOf(lDoc, Len(lDoc)) # <<>>
    /\ \E b \in Range(EmittedBlocks) :
          NormText(TextOf(lDoc, b)) = NormText(TextOf(lDoc, Len(lDoc)))

(***************************************************************************)
(* extract_risk_factor_titles                                              *)
(*                                                                         *)
(* The parsed section is the sequence of its nodes in document order.  A   *)
(* node is a tag (name, style attribute, parent position) or a text node   *)
(* (its characters, parent position).  Text is a sequence of characters.   *)
(* A style attribute is kept as its declarations <<property, value>>.      *)
(***************************************************************************)

MINIMUM_TITLE_LENGTH == 10
MINIMUM_TITLE_LENGTH_PHRASE == 5
MAXIMUM_TITLE_LENGTH == 1000

bold_tags == {"b", "strong", "h4"}
italic_tags == {"i", "em"}
underline_tags == {"u"}

Whitespace == {" ", "\n"}
UpperCase == {"A", "B", "C", "D", "E"}
LowerCase == {"a", "b", "c", "d", "e", "f", "g", "h", "i", "j", "k", "l", "m", "n"}

\* The first and last positions of s that hold no whitespace; 0 when there
\* is none.
FirstInk(s) ==
    IF \A k \in 1..Len(s) : s[k] \in Whitespace THEN 0
    ELSE CHOOSE k \in 1..Len(s) :
            s[k] \notin Whitespace /\ \A j \in 1..(k - 1) : s[j] \in Whitespace

LastInk(s) ==
    IF \A k \in 1..Len(s) : s[k] \in Whitespace THEN 0
    ELSE CHOOSE k \in 1..Len(s) :
            s[k] \notin Whitespace /\ \A j \in (k + 1)..Len(s) : s[j] \in Whitespace

\* str.strip()
Strip(s) == IF FirstInk(s) = 0 THEN <<>> ELSE SubSeq(s, FirstInk(s), LastInk(s))

\* re.sub(r'\s+', ' ', s): word by word, each run of whitespace becoming " ".
RECURSIVE CollapseSpaces(_)
CollapseSpaces(s) ==
    IF \A k \in 1..Len(s) : s[k] \notin Whitespace THEN s
    ELSE LET w == CHOOSE k \in 1..Len(s) :
                    s[k] \in Whitespace /\ \A j \in 1..(k - 1) : s[j] \notin Whitespace
             rest == SubSeq(s, w, Len(s))
         IN SubSeq(s, 1, w - 1) \o <<" ">>
            \o (IF FirstInk(rest) = 0 THEN <<>>
                ELSE CollapseSpaces(SubSeq(rest, FirstInk(rest), Len(rest))))

\* len(s.split())
SplitLen(s) ==
    Cardinality({ k \in 1..Len(s) :
                    s[k] \notin Whitespace /\ (k = 1 \/ s[k - 1] \in Whitespace) })

\* str.isupper(): some cased character, and no lower-case one.
IsUpper(s) ==
    /\ \E k \in 1..Len(s) : s[k] \in UpperCase
    /\ \A k \in 1..Len(s) : s[k] \notin LowerCase

\* str.rstrip('.')
RStripDots(s) ==
    IF \A k \in 1..Len(s) : s[k] = "." THEN <<>>
    ELSE SubSeq(s, 1, CHOOSE k \in 1..Len(s) :
                         s[k] # "." /\ \A j \in (k + 1)..Len(s) : s[j] = ".")

IsTag(doc, j) == doc[j].kind = "tag"

\* The stripped, non-empty strings under tag i from position j on, joined by
\* " ": tag.get_text(" ", strip=True).
RECURSIVE JoinStrings(_, _, _, _)
JoinStrings(doc, i, j, first) ==
    IF j > Len(doc) THEN <<>>
    ELSE IF doc[j].kind = "text" /\ IsUnder(doc, j, i) /\ Strip(doc[j].chars) # <<>>
         THEN (IF first THEN <<>> ELSE <<" ">>) \o Strip(doc[j].chars)
              \o JoinStrings(doc, i, j + 1, FALSE)
         ELSE JoinStrings(doc, i, j + 1, first)

GetText(doc, i) == JoinStrings(doc, i, i + 1, TRUE)

\* text = tag.get_text(" ", strip=True); text = re.sub(r'\s+', ' ', text).strip()
NormalizedText(doc, i) == Strip(CollapseSpaces(GetText(doc, i)))

\* A slip the filter could have: the terminal-punctuation test left out.
RejectedIgnoringPunctuation(text) ==
    IF text = <<>> THEN TRUE
    ELSE \/ Len(text) > MAXIMUM_TITLE_LENGTH
         \/ SplitLen(text) < MINIMUM_TITLE_LENGTH_PHRASE
         \/ Len(text) < MINIMUM_TITLE_LENGTH

\* The filter at the head of the loop body (`continue` when it holds).
Rejected(text) ==
    IF text = <<>> THEN TRUE
    ELSE \/ Len(text) > MAXIMUM_TITLE_LENGTH
         \/ SplitLen(text) < MINIMUM_TITLE_LENGTH_PHRASE
         \/ Len(text) < MINIMUM_TITLE_LENGTH
         \/ text[Len(text)] \notin {":", "."}

\* str.lower() and .replace(" ", "") on the words of a style declaration.
StyleWord(w) ==
    CASE w \in {"font-weight", "FONT-WEIGHT", "font-weight "} -> "font-weight"
      [] w \in {"font-style", "Font-Style"} -> "font-style"
      [] w \in {"text-decoration", "TEXT-DECORATION"} -> "text-decoration"
      [] w \in {"bold", " bold", "Bold"} -> "bold"
      [] w \in {"italic", " italic", "ITALIC"} -> "italic"
      [] w \in {"underline", " underline"} -> "underline"
      [] OTHER -> w

\* style = tag.get('style', '').lower().replace(" ", ""), by declaration.
StyleOf(node) == { <<StyleWord(d[1]), StyleWord(d[2])>> : d \in Range(node.style) }

is_bold(node) ==
    <<"font-weight", "bold">> \in StyleOf(node) \/ <<"font-weight", "700">> \in StyleOf(node)
is_italic(node) ==
    <<"font-style", "italic">> \in StyleOf(node) \/ <<"font-style", "700">> \in StyleOf(node)
is_underline(node) == <<"text-decoration", "underline">> \in StyleOf(node)

\* A slip the duplicate test could have: no test at all.
UnseenUnchecked(text, seen) == TRUE

\* `text not in seen`
Unseen(text, seen) == text \notin seen

\* `text not in seen and not text.isupper()`
Acceptable(text, seen) == Unseen(text, seen) /\ ~IsUpper(text)

\* seen.add(text); titles.append({"text": text, "emphasis": emphasis}).  The
\* fields src (the tag being visited) and via (the branch) are history kept
\* for the properties; the code does not store them.
Record(st, text, emphasis, src, via) ==
    [seen |-> st.seen \cup {text},
     titles |-> Append(st.titles,
                       [text |-> text, emphasis |-> emphasis, src |-> src, via |-> via])]

\* seen.add(run.strip()); titles.append({"text": run, "emphasis": emphasis})
RecordRun(st, run, emphasis, src) ==
    [seen |-> st.seen \cup {Strip(run)},
     titles |-> Append(st.titles,
                       [text |-> run, emphasis |-> emphasis, src |-> src, via |-> "run"])]

\* "HTML formats": the tag is itself an emphasis tag.
TagChannel(doc, i, st, text) ==
    IF Acceptable(text, st.seen) THEN Record(st, text, doc[i].name, i, "tag") ELSE st

\* "CSS formats", the style on the tag itself.
StyleChannel(doc, i, st, text) ==
    IF is_bold(doc[i]) /\ Acceptable(text, st.seen) THEN Record(st, text, "b", i, "style")
    ELSE IF is_italic(doc[i]) /\ Acceptable(text, st.seen)
         THEN Record(st, text, "i", i, "style")
    ELSE IF is_underline(doc[i]) /\ Acceptable(text, st.seen)
         THEN Record(st, text, "u", i, "style")
    ELSE st

\* tag.find("i", recursive=False): the first child tag named i, 0 for None.
FirstItalicChild(doc, i) ==
    LET kids == { j \in 1..Len(doc) : IsTag(doc, j) /\ doc[j].parent = i /\ doc[j].name = "i" }
    IN IF kids = {} THEN 0 ELSE MinOf(kids)

\* The text of the italic child with its period put back.
RecoveredText(doc, c) == Strip(RStripDots(Strip(NormalizedText(doc, c)))) \o <<".">>

\* The block for the period split from the italic text.
RecoveryChannel(doc, i, st) ==
    LET c == FirstItalicChild(doc, i)
    IN IF c = 0 THEN st
       ELSE LET text == RecoveredText(doc, c)
            IN IF /\ Len(text) <= MAXIMUM_TITLE_LENGTH
                  /\ Len(text) >= MINIMUM_TITLE_LENGTH_PHRASE
                  /\ Len(text) >= MINIMUM_TITLE_LENGTH
                  /\ Acceptable(text, st.seen)
               THEN Record(st, text, "i", i, "recovery")
               ELSE st

\* The branch of the if / elif / elif that a descendant's style takes.
StyleKind(node) ==
    IF is_bold(node) THEN "b"
    ELSE IF is_italic(node) THEN "i"
    ELSE IF is_underline(node) THEN "u"
    ELSE "none"

\* final_text_<kind>: the texts of the descendants of that style, concatenated
\* in document order from position j on.
RECURSIVE RunFrom(_, _, _, _)
RunFrom(doc, i, kind, j) ==
    IF j > Len(doc) THEN <<>>
    ELSE (IF IsTag(doc, j) /\ IsUnder(doc, j, i) /\ StyleKind(doc[j]) = kind
          THEN NormalizedText(doc, j) ELSE <<>>)
         \o RunFrom(doc, i, kind, j + 1)

Run(doc, i, kind) == RunFrom(doc, i, kind, i + 1)

\* The test each run is put to.
RunPasses(run) ==
    /\ run # <<>>
    /\ Len(run) <= MAXIMUM_TITLE_LENGTH
    /\ SplitLen(run) >= MINIMUM_TITLE_LENGTH_PHRASE
    /\ Len(run) >= MINIMUM_TITLE_LENGTH
    /\ run[Len(run)] \in {":", "."}

\* "Handle when the style is in the child": if / elif / elif over the runs.
AggregationChannel(doc, i, st) ==
    LET b == Run(doc, i, "b")
        it == Run(doc, i, "i")
        u == Run(doc, i, "u")
    IN IF RunPasses(b)
       THEN (IF Acceptable(b, st.seen) THEN RecordRun(st, b, "b", i) ELSE st)
       ELSE IF RunPasses(it)
       THEN (IF Acceptable(it, st.seen) THEN RecordRun(st, it, "i", i) ELSE st)
       ELSE IF RunPasses(u)
       THEN (IF Acceptable(u, st.seen) THEN RecordRun(st, u, "u", i) ELSE st)
       ELSE st

IsEmphasisTag(node) == node.name \in bold_tags \cup italic_tags \cup underline_tags
IsContainer(node) == node.name \in {"p", "div", "span"}

\* The loop body for the tag at position i.
VisitTag(doc, i, st) ==
    LET text == NormalizedText(doc, i)
    IN IF Rejected(text) THEN st
       ELSE IF IsEmphasisTag(doc[i]) THEN TagChannel(doc, i, st, text)
       ELSE IF IsContainer(doc[i])
            THEN AggregationChannel(doc, i,
                     RecoveryChannel(doc, i, StyleChannel(doc, i, st, text)))
       ELSE st

\* count_<kind>
CountOf(titles, tags) == Cardinality({ k \in 1..Len(titles) : titles[k].emphasis \in tags })

\* A slip the comparison could have: >= for >, so that a tie is resolved too.
DominantTagsOnTie(titles) ==
    LET ci == CountOf(titles, italic_tags)
        cb == CountOf(titles, bold_tags)
        cu == CountOf(titles, underline_tags)
    IN IF ci >= cb /\ ci >= cu THEN italic_tags
       ELSE IF cb >= ci /\ cb >= cu THEN bold_tags
       ELSE underline_tags

\* The tags of the dominant kind; {} when no count exceeds both others.
DominantTags(titles) ==
    LET ci == CountOf(titles, italic_tags)
        cb == CountOf(titles, bold_tags)
        cu == CountOf(titles, underline_tags)
    IN IF ci > cb /\ ci > cu THEN italic_tags
       ELSE IF cb > ci /\ cb > cu THEN bold_tags
       ELSE IF cu > ci /\ cu > cb THEN underline_tags
       ELSE {}

\* The dominant-style step.
Resolve(titles) ==
    LET OfDominantKind(t) == t.emphasis \in DominantTags(titles)
    IN IF DominantTags(titles) = {} THEN titles ELSE SelectSeq(titles, OfDominantKind)

\* return [t["text"] for t in titles]
TextsOf(titles) == [k \in 1..Len(titles) |-> titles[k].text]

\* soup.find_all(True, recursive=True), as positions in the document.
TagPositions(doc) ==
    LET tags == { j \in 1..Len(doc) : IsTag(doc, j) }
    IN [k \in 1..Cardinality(tags) |->
          CHOOSE j \in tags : Cardinality({ x \in tags : x <= j }) = k]

\* Inputs: the texts the sections are written with.  TitleA and TitleB pass
\* every filter at its boundary (10 characters, 5 words); MessyB is TitleB
\* before whitespace is collapsed.
TitleA == <<"a", " ", "b", " ", "c", " ", "d", " ", "e", ".">>
TitleB == <<"f", " ", "g", " ", "h", " ", "i", " ", "j", ":">>
MessyB == <<" ", "f", " ", "g", " ", " ", "h", " ", "i", "\n", "j", ":", " ">>
NoPunct == <<"a", " ", "b", " ", "c", " ", "d", " ", "e", " ", "f">>
AllCaps == <<"A", " ", "B", " ", "C", " ", "D", " ", "E", ".">>
TwoWords == <<"a", "a", "a", "a", " ", "b", "b", "b", "b", "b">>
Lead == <<"k", " ", "l", " ", "m", " ", "n">>
Dot == <<".">>
HalfOne == <<"a", " ", "b", " ", "c">>
HalfTwo == <<"d", " ", "e", " ", "f", ".">>

\* A five-word text of n + 9 characters that ends in a period.
LongText(n) == <<"a", " ", "b", " ", "c", " ", "d", " ">> \o [k \in 1..n |-> "e"] \o <<".">>

\* Inputs: a section is <html><body> followed by up to MaxBlocks blocks.
MaxBlocks == 2

Tag(name, style, up) ==
    [kind |-> "tag", name |-> name, style |-> style, up |-> up, chars |-> <<>>]
Text(chars, up) ==
    [kind |-> "text", name |-> "", style |-> <<>>, up |-> up, chars |-> chars]

BlockKinds ==
    { "b", "i", "em", "u", "bNoPunct", "strongCaps", "pBold", "pRecover",
      "pRecoverShort", "pRuns", "pSplit", "divPair", "uMax", "uLong" }

\* The nodes of a block; `up` is the distance back to the parent tag, 0 for
\* a child of <body>.
TitleBlock(kind) ==
    CASE kind = "b" -> << Tag("b", <<>>, 0), Text(TitleA, 1) >>
      [] kind = "i" -> << Tag("i", <<>>, 0), Text(TitleA, 1) >>
      [] kind = "em" -> << Tag("em", <<>>, 0), Text(MessyB, 1) >>
      [] kind = "u" -> << Tag("u", <<>>, 0), Text(TitleB, 1) >>
      [] kind = "uMax" ->
            << Tag("u", <<>>, 0), Text(LongText(MAXIMUM_TITLE_LENGTH - 9), 1) >>
      [] kind = "uLong" ->
            << Tag("u", <<>>, 0), Text(LongText(MAXIMUM_TITLE_LENGTH - 8), 1) >>
      [] kind = "bNoPunct" -> << Tag("b", <<>>, 0), Text(NoPunct, 1) >>
      [] kind = "strongCaps" -> << Tag("strong", <<>>, 0), Text(AllCaps, 1) >>
      [] kind = "pBold" ->
            << Tag("p", << <<"FONT-WEIGHT", " bold">> >>, 0), Text(TitleA, 1) >>
      [] kind = "pRecover" ->
            << Tag("p", <<>>, 0), Tag("i", <<>>, 1), Text(NoPunct, 1), Text(Dot, 3) >>
      [] kind = "pRecoverShort" ->
            << Tag("p", <<>>, 0), Text(Lead, 1), Tag("i", <<>>, 2), Text(TwoWords, 1),
               Text(Dot, 4) >>
      [] kind = "pRuns" ->
            << Tag("p", <<>>, 0),
               Tag("font", << <<"font-weight", "700">> >>, 1), Text(TitleA, 1),
               Tag("font", << <<"color", "red">>, <<"Font-Style", " italic">> >>, 3),
               Text(TitleB, 1) >>
      [] kind = "pSplit" ->
            << Tag("p", <<>>, 0),
               Tag("span", << <<"text-decoration", "underline">> >>, 1), Text(HalfOne, 1),
               Tag("span", << <<"TEXT-DECORATION", " underline">> >>, 3), Text(HalfTwo, 1) >>
      [] kind = "divPair" ->
            << Tag("div", <<>>, 0), Tag("i", <<>>, 1), Text(TitleA, 1),
               Tag("i", <<>>, 3), Text(TitleB, 1) >>

RECURSIVE TitleBlocks(_)
TitleBlocks(kinds) ==
    IF kinds = <<>> THEN <<>> ELSE TitleBlock(Head(kinds)) \o TitleBlocks(Tail(kinds))

\* BeautifulSoup(item_1a_html, 'lxml'): the nodes under <html><body>, each
\* with the position of its parent.
Parse(nodes) ==
    << [kind |-> "tag", name |-> "html", style |-> <<>>, parent |-> 0, chars |-> <<>>],
       [kind |-> "tag", name |-> "body", style |-> <<>>, parent |-> 1, chars |-> <<>>] >>
    \o [k \in 1..Len(nodes) |->
          [kind |-> nodes[k].kind, name |-> nodes[k].name, style |-> nodes[k].style,
           parent |-> IF nodes[k].up = 0 THEN 2 ELSE k + 2 - nodes[k].up,
           chars |-> nodes[k].chars]]

TitleDocs ==
    { Parse(TitleBlocks(kinds)) : kinds \in UNION { [1..n -> BlockKinds] : n \in 0..MaxBlocks } }

\* The returned list presented as a fresh section: each string in a tag of the
\* emphasis it was accepted under.
FreshSlice(kept) ==
    LET nodes == [k \in 1..(2 * Len(kept)) |->
                    IF k % 2 = 1 THEN Tag(kept[(k + 1) \div 2].emphasis, <<>>, 0)
                    ELSE Text(kept[k \div 2].text, 1)]
    IN Parse(nodes)

TitleStart ==
    /\ tDoc \in TitleDocs
    /\ tIdx = 1
    /\ tPc = "loop"
    /\ tSeen = {}
    /\ tTitles = <<>>
    /\ tKept = <<>>
    /\ tRun = 1
    /\ tFirst = <<>>

\* The tag the loop is at.
Current == TagPositions(tDoc)[tIdx]

InLoop == tPc = "loop" /\ tIdx <= Len(TagPositions(tDoc))

\* The state of the loop's locals after the body has run on the current tag.
Visited == VisitTag(tDoc, Current, [seen |-> tSeen, titles |-> tTitles])

\* An iteration that ends at the filter's `continue`.
TitleSkip ==
    /\ InLoop
    /\ Rejected(NormalizedText(tDoc, Current))
    /\ tIdx' = tIdx + 1
    /\ tSeen' = Visited.seen /\ tTitles' = Visited.titles
    /\ UNCHANGED <<tDoc, tPc, tKept, tRun, tFirst, dateVars, locVars>>

\* An iteration on an emphasis tag whose text passes the filter.
TitleEmphasisTag ==
    /\ InLoop
    /\ ~Rejected(NormalizedText(tDoc, Current))
    /\ IsEmphasisTag(tDoc[Current])
    /\ tIdx' = tIdx + 1
    /\ tSeen' = Visited.seen /\ tTitles' = Visited.titles
    /\ UNCHANGED <<tDoc, tPc, tKept, tRun, tFirst, dateVars, locVars>>

\* An iteration on a p, div or span whose text passes the filter.
TitleContainerTag ==
    /\ InLoop
    /\ ~Rejected(NormalizedText(tDoc, Current))
    /\ ~IsEmphasisTag(tDoc[Current]) /\ IsContainer(tDoc[Current])
    /\ tIdx' = tIdx + 1
    /\ tSeen' = Visited.seen /\ tTitles' = Visited.titles
    /\ UNCHANGED <<tDoc, tPc, tKept, tRun, tFirst, dateVars, locVars>>

\* An iteration on any other tag whose text passes the filter.
TitleOtherTag ==
    /\ InLoop
    /\ ~Rejected(NormalizedText(tDoc, Current))
    /\ ~IsEmphasisTag(tDoc[Current]) /\ ~IsContainer(tDoc[Current])
    /\ tIdx' = tIdx + 1
    /\ tSeen' = Visited.seen /\ tTitles' = Visited.titles
    /\ UNCHANGED <<tDoc, tPc, tKept, tRun, tFirst, dateVars, locVars>>

\* After the loop: the dominant-style step and the return.
TitleResolve ==
    /\ tPc = "loop" /\ tIdx > Len(TagPositions(tDoc))
    /\ tKept' = Resolve(tTitles)
    /\ tPc' = "done"
    /\ UNCHANGED <<tDoc, tIdx, tSeen, tTitles, tRun, tFirst, dateVars, locVars>>

\* The classifier is called again on its own output.
TitleRerun ==
    /\ tPc = "done" /\ tRun = 1
    /\ tFirst' = TextsOf(tKept)
    /\ tDoc' = FreshSlice(tKept)
    /\ tRun' = 2
    /\ tIdx' = 1 /\ tPc' = "loop" /\ tSeen' = {} /\ tTitles' = <<>> /\ tKept' = <<>>
    /\ UNCHANGED <<dateVars, locVars>>

TitleNext ==
    \/ TitleSkip \/ TitleEmphasisTag \/ TitleContainerTag \/ TitleOtherTag
    \/ TitleResolve \/ TitleRerun

TitleInit == TitleStart /\ DateIdle /\ LocIdle

SpecTitles == TitleInit /\ [][TitleNext]_vars

NoDuplicates(seq) == \A a, b \in 1..Len(seq) : a # b => seq[a] # seq[b]

EndsWithPunctuation(text) == text # <<>> /\ text[Len(text)] \in {":", "."}

TitleDone == tPc = "done"

\* The position in the collected titles of a kept title.
PositionOf(t) == CHOOSE k \in 1..Len(tTitles) : tTitles[k] = t

\* C1: the loop never collects a string twice and collects in document
\* order; the returned list has no two equal strings, and the dominant-style
\* step only removes entries: what it keeps stands in the order of
\* acceptance.
C1_UniqueInAcceptanceOrder ==
    /\ NoDuplicates(TextsOf(tTitles))
    /\ \A a, b \in 1..Len(tTitles) : a < b => tTitles[a].src <= tTitles[b].src
    /\ TitleDone =>
         /\ NoDuplicates(TextsOf(tKept))
         /\ \A k \in 1..Len(tKept) : tKept[k] \in Range(tTitles)
         /\ \A a, b \in 1..Len(tKept) : a < b => PositionOf(tKept[a]) < PositionOf(tKept[b])

\* C1 witness: a section returned two or more titles after a repeated text
\* was suppressed and the dominant-style step removed an entry.
C1_Witness ==
    /\ TitleDone /\ tRun = 1
    /\ Len(tKept) >= 2 /\ Len(tKept) < Len(tTitles)
    /\ \E j \in Range(TagPositions(tDoc)) :
          /\ IsEmphasisTag(tDoc[j])
          /\ ~Rejected(NormalizedText(tDoc, j))
          /\ ~IsUpper(NormalizedText(tDoc, j))
          /\ \A k \in 1..Len(tTitles) : tTitles[k].src # j

\* The collected candidates of one emphasis kind, in order.
OfKind(titles, tags) ==
    LET InKind(t) == t.emphasis \in tags
    IN SelectSeq(titles, InKind)

\* C2: every collected candidate is in exactly one of the three buckets; when
\* one kind's count is strictly greater than both others the returned list
\* is exactly the candidates of that kind, and in every other case (a tie
\* for the highest count, all counts zero) it is all candidates.
C2_DominantStyleResolution ==
    LET ci == Len(OfKind(tTitles, italic_tags))
        cb == Len(OfKind(tTitles, bold_tags))
        cu == Len(OfKind(tTitles, underline_tags))
    IN /\ \A k \in 1..Len(tTitles) :
             Cardinality({ B \in {italic_tags, bold_tags, underline_tags} :
                             tTitles[k].emphasis \in B }) = 1
       /\ TitleDone =>
            /\ (ci > cb /\ ci > cu) => tKept = OfKind(tTitles, italic_tags)
            /\ (cb > ci /\ cb > cu) => tKept = OfKind(tTitles, bold_tags)
            /\ (cu > ci /\ cu > cb) => tKept = OfKind(tTitles, underline_tags)
            /\ ~(ci > cb /\ ci > cu) /\ ~(cb > ci /\ cb > cu) /\ ~(cu > ci /\ cu > cb)
                 => tKept = tTitles

\* C2 witness: one kind strictly dominates while another kind has candidates,
\* and only the dominant kind's titles were returned.
C2_Witness ==
    /\ TitleDone
    /\ \E B \in {italic_tags, bold_tags, underline_tags} :
          /\ \A C \in {italic_tags, bold_tags, underline_tags} \ {B} :
                CountOf(tTitles, B) > CountOf(tTitles, C)
          /\ CountOf(tTitles, B) < Len(tTitles)
          /\ Len(tKept) = CountOf(tTitles, B)

\* C6: a tag whose normalized text does not end in ':' or '.' is never the
\* source of a title, and every collected or returned string ends in ':' or
\* '.'.
C6_TerminalPunctuationRequired ==
    /\ \A k \in 1..Len(tTitles) :
          /\ EndsWithPunctuation(tTitles[k].text)
          /\ EndsWithPunctuation(NormalizedText(tDoc, tTitles[k].src))
    /\ \A k \in 1..Len(tKept) : EndsWithPunctuation(tKept[k].text)

\* C6 witness: the section holds an emphasis tag whose text passes every
\* filter but the terminal punctuation, and titles were returned.
C6_Witness ==
    /\ TitleDone /\ tRun = 1 /\ tKept # <<>>
    /\ \E j \in Range(TagPositions(tDoc)) :
          /\ IsEmphasisTag(tDoc[j])
          /\ ~RejectedIgnoringPunctuation(NormalizedText(tDoc, j))
          /\ ~EndsWithPunctuation(NormalizedText(tDoc, j))

\* C7: running the classifier on its own output, each string in a tag of the
\* emphasis it was accepted under, returns the same set of titles.
C7_RerunKeepsSameTitles ==
    (TitleDone /\ tRun = 2) => Range(TextsOf(tKept)) = Range(tFirst)

\* C9: for a container that passes the text filters, each of its three runs
\* is evaluated: a run that passes the run test and is not upper-case has
\* been seen (recorded now or earlier) once the container is visited,
\* whatever the other runs are.
C9_EachRunIsEvaluated ==
    TitleDone =>
        \A j \in Range(TagPositions(tDoc)) :
            (IsContainer(tDoc[j]) /\ ~Rejected(NormalizedText(tDoc, j))) =>
                \A kind \in {"b", "i", "u"} :
                    (RunPasses(Run(tDoc, j, kind)) /\ ~IsUpper(Run(tDoc, j, kind)))
                    => Run(tDoc, j, kind) \in tSeen

\* C10: every returned string is non-empty, has at least 10 characters, at
\* least 5 words and at most 1000 characters, whichever branch accepted it.
C10_OutputPassesFilters ==
    TitleDone =>
        \A k \in 1..Len(tKept) :
            /\ tKept[k].text # <<>>
            /\ Len(tKept[k].text) >= MINIMUM_TITLE_LENGTH
            /\ SplitLen(tKept[k].text) >= MINIMUM_TITLE_LENGTH_PHRASE
            /\ Len(tKept[k].text) <= MAXIMUM_TITLE_LENGTH

====
